---- MODULE Spec2Model ----
(***************************************************************************)
(* c10::Dispatcher (aten/src/ATen/core/dispatch/Dispatcher.cpp): the       *)
(* operator registry.  Threads call registerDef, registerImpl,             *)
(* registerFallback, addRegistrationListener and findSchema, and dispose   *)
(* the RegistrationHandleRAII values the registrations return.  Every      *)
(* function that holds mutex_ is cut into the steps another thread can     *)
(* observe: the lock is taken by the call step and released by the step    *)
(* that returns or throws.                                                 *)
(***************************************************************************)
EXTENDS Integers, Sequences, FiniteSets, Bags, TLC

\* ---------------------------------------------------------------- bounds
\* Calls a behaviour may start (every call of every thread counts).
MaxOps == 4

\* ---------------------------------------------------------------- inputs
Threads == {"t1", "t2"}
NoThread == "nobody"

OperatorNames == {"add", "mul"}
\* Structural part of a FunctionSchema (arguments and returns).
Signatures == {"(a, b)", "(a)"}
\* AliasAnalysisKind; "DEFAULT" is isDefaultAliasAnalysisKind().
AliasKinds == {"DEFAULT", "K1", "K2"}
NoSchema == [none |-> TRUE]
\* The schemas registerDef is called with: every schema of "add", and one
\* schema of "mul".
Schemas ==
    [name : {"add"}, sig : Signatures, kind : AliasKinds]
        \cup [name : {"mul"}, sig : {"(a, b)"}, kind : {"K1"}]

DispatchKeys == {"CPU", "CUDA"}
\* c10::optional<DispatchKey> of registerImpl: nullopt is the catch-all.
ImplKeys == {"nullopt", "CPU"}
\* KernelFunction values: only isFallthrough() is observed here.
Kernels == {"fallthrough", "kernel"}
NoKernel == "invalid"

nullopt == 0

VARIABLES
    operators_,                  \* std::list<OperatorDef>, in list order
    operatorLookupTable_,        \* OperatorName -> OperatorHandle
    backendFallbackKernels_,     \* DispatchKey -> KernelFunction
    backendsWithoutFallthrough_, \* DispatchKeySet
    listeners_,                  \* per listener, the events it has received
    mutex_,                      \* the thread that holds the lock
    handles,                     \* live RegistrationHandleRAII values (a bag)
    thr,                         \* per thread: position and locals
    nextId,                      \* identity of the next list node
    nCalls,                      \* calls started so far
    last                         \* the call that returned last

vars == <<operators_, operatorLookupTable_, backendFallbackKernels_,
          backendsWithoutFallthrough_, listeners_, mutex_, handles, thr,
          nextId, nCalls, last>>

registryVars == <<operators_, operatorLookupTable_, listeners_, mutex_, nextId>>
fallbackVars == <<backendFallbackKernels_, backendsWithoutFallthrough_>>

Idle == [pc |-> "idle"]
NoLast == [op |-> "none"]

\* ------------------------------------------------------- list of operators
Ids(ops) == {ops[i].id : i \in DOMAIN ops}

IndexOf(ops, id) == CHOOSE i \in DOMAIN ops : ops[i].id = id

\* A list node that is no longer in the list.
Dangling == [id |-> 0, name |-> "?", schema |-> NoSchema,
             refcount |-> 0, weak_refcount |-> 0, kernels |-> EmptyBag]

\* op.operatorIterator_-> : the node a handle points at.
Deref(ops, id) == IF id \in Ids(ops) THEN ops[IndexOf(ops, id)] ELSE Dangling

\* Assignment through op.operatorIterator_->
Update(ops, id, node) ==
    [i \in DOMAIN ops |-> IF ops[i].id = id THEN node ELSE ops[i]]

\* operators_.erase(op.operatorIterator_)
Erase(ops, id) == SelectSeq(ops, LAMBDA e : e.id # id)

\* OperatorEntry(FunctionSchema&&) / OperatorEntry(OperatorName&&) in a new
\* OperatorDef: both refcounts start at 0.
NewOperatorDef(id, name, schema) ==
    [id |-> id, name |-> name, schema |-> schema,
     refcount |-> 0, weak_refcount |-> 0, kernels |-> EmptyBag]

\* FunctionSchema operator!= : name, arguments and returns; the alias
\* analysis kind is compared separately (lines 68-77).
SchemaDiffers(a, b) == a.name # b.name \/ a.sig # b.sig

\* OperatorEntry::updateSchemaAliasAnalysis
updateSchemaAliasAnalysis(node, kind) ==
    [node EXCEPT !.schema = [node.schema EXCEPT !.kind = kind]]

\* OperatorEntry::registerKernel / deregisterKernel_ : one more, one fewer
\* kernel in the slot of the dispatch key.
registerKernel(node, key) ==
    [node EXCEPT !.kernels = node.kernels (+) SetToBag({key})]

deregisterKernel_(node, key) ==
    [node EXCEPT !.kernels = node.kernels (-) SetToBag({key})]

\* What the claims compare of a list node (the kernel table is not part).
NodeView(e) == [id |-> e.id, name |-> e.name, schema |-> e.schema,
                refcount |-> e.refcount, weak_refcount |-> e.weak_refcount]

View(ops) == [i \in DOMAIN ops |-> NodeView(ops[i])]

\* ------------------------------------------------------------- findSchema
findSchema(name) ==
    IF name \in DOMAIN operatorLookupTable_
    THEN operatorLookupTable_[name] ELSE nullopt

\* (mutant) the new handle never reaches the lookup table.
LookupEmplace_Skip(table, name, handle) == table

\* operatorLookupTable.emplace(op_name, handle): keeps an existing key.
LookupEmplace(table, name, handle) ==
    IF name \in DOMAIN table THEN table ELSE table @@ (name :> handle)

\* (mutant) the name of an erased entry stays in the lookup table.
LookupErase_Keep(table, name) == table

\* operatorLookupTable.erase(op_name)
LookupErase(table, name) == [n \in DOMAIN table \ {name} |-> table[n]]

\* --------------------------------------------------------------- listeners
Event(ev, op) == [ev |-> ev, op |-> op]

callOnOperatorRegistered(ls, op) ==
    [i \in DOMAIN ls |-> Append(ls[i], Event("registered", op))]

callOnOperatorDeregistered(ls, op) ==
    [i \in DOMAIN ls |-> Append(ls[i], Event("deregistered", op))]

\* ------------------------------------------------------------------ state
Init ==
    /\ operators_ = <<>>
    /\ operatorLookupTable_ = <<>>
    /\ backendFallbackKernels_ = [k \in DispatchKeys |-> NoKernel]
    /\ backendsWithoutFallthrough_ = DispatchKeys
    /\ listeners_ = <<>>
    /\ mutex_ = NoThread
    /\ handles = EmptyBag
    /\ thr = [t \in Threads |-> Idle]
    /\ nextId = 1
    /\ nCalls = 0
    /\ last = NoLast

\* The dispatcher as a call finds it.
Snapshot == [operators |-> operators_, lookup |-> operatorLookupTable_,
             listeners |-> listeners_, handles |-> handles,
             kernels |-> backendFallbackKernels_,
             bitset |-> backendsWithoutFallthrough_]

\* (mutant) no lock is taken.
LockFree_NoLock == TRUE

\* std::lock_guard<std::mutex> lock(mutex_)
LockFree == mutex_ = NoThread

CanCall(t) == thr[t].pc = "idle" /\ nCalls < MaxOps

\* A call begins: thread t leaves "idle" with its locals.
Call(t, locals) ==
    /\ thr' = [thr EXCEPT ![t] = locals]
    /\ nCalls' = nCalls + 1
    /\ last' = NoLast

\* Thread t moves on inside its call.
Goto(t, locals) ==
    /\ thr' = [thr EXCEPT ![t] = locals @@ thr[t]]
    /\ last' = NoLast
    /\ UNCHANGED nCalls

\* A call returns or throws; `rec` is what the caller sees of it.
Return(t, rec) ==
    /\ thr' = [thr EXCEPT ![t] = Idle]
    /\ last' = rec @@ [fn |-> thr[t].fn, pre |-> thr[t].pre]
    /\ UNCHANGED nCalls

\* RegistrationHandleRAII: the closure a registration returns.
DefHandle(op, op_name) ==
    [kind |-> "def", op |-> op, op_name |-> op_name, dispatch_key |-> "-"]

ImplHandle(op, op_name, key) ==
    [kind |-> "impl", op |-> op, op_name |-> op_name, dispatch_key |-> key]

FallbackHandle(key) ==
    [kind |-> "fallback", op |-> 0, op_name |-> "-", dispatch_key |-> key]

\* -------------------------------------------------------------- registerDef
\* Lines 109-113: the call, the lock.
RegisterDef(t, schema) ==
    /\ CanCall(t)
    /\ LockFree
    /\ mutex_' = t
    /\ Call(t, [pc |-> "findOrRegisterWithSchema_", fn |-> "registerDef",
                schema |-> schema, pre |-> Snapshot])
    /\ UNCHANGED <<operators_, operatorLookupTable_, listeners_, nextId,
                   handles, fallbackVars>>

\* (mutant) the schemas are not compared (lines 65-67 missing).
SchemaCheck_NoCompare(node, schema) ==
    IF node.schema = NoSchema THEN {"internal_assert", "schema_conflict"}
    ELSE IF schema.kind = "DEFAULT" THEN {"pass"}
    ELSE IF node.schema.kind = "DEFAULT" THEN {"update"}
    ELSE IF node.schema.kind = schema.kind THEN {"pass"}
    ELSE {"alias_conflict"}

\* (mutant) a concrete kind replaces any stored kind (lines 72-77 missing).
SchemaCheck_Overwrite(node, schema) ==
    IF node.schema = NoSchema THEN {"internal_assert", "schema_conflict"}
    ELSE IF SchemaDiffers(node.schema, schema) THEN {"schema_conflict"}
    ELSE IF schema.kind = "DEFAULT" THEN {"pass"}
    ELSE {"update"}

\* (mutant) a stored default kind is kept (line 71 missing).
SchemaCheck_NoUpdate(node, schema) ==
    IF node.schema = NoSchema THEN {"internal_assert", "schema_conflict"}
    ELSE IF SchemaDiffers(node.schema, schema) THEN {"schema_conflict"}
    ELSE IF schema.kind = "DEFAULT" THEN {"pass"}
    ELSE IF node.schema.kind = "DEFAULT" THEN {"pass"}
    ELSE IF node.schema.kind = schema.kind THEN {"pass"}
    ELSE {"alias_conflict"}

\* Lines 65-77: what findOrRegisterWithSchema_ does with the entry it found.
\* schema() of an entry that was created by name only has no value to
\* return: the call fails, by the accessor's assertion or by the comparison.
SchemaCheck(node, schema) ==
    IF node.schema = NoSchema THEN {"internal_assert", "schema_conflict"}
    ELSE IF SchemaDiffers(node.schema, schema) THEN {"schema_conflict"}
    ELSE IF schema.kind = "DEFAULT" THEN {"pass"}
    ELSE IF node.schema.kind = "DEFAULT" THEN {"update"}
    ELSE IF node.schema.kind = schema.kind THEN {"pass"}
    ELSE {"alias_conflict"}

\* Lines 63-83: findOrRegisterWithSchema_ up to the new list node.
FindOrRegisterWithSchema_(t) ==
    /\ thr[t].pc = "findOrRegisterWithSchema_"
    /\ LET schema == thr[t].schema
           found == findSchema(schema.name)
           node == Deref(operators_, found)
       IN IF found # nullopt
          THEN \E outcome \in SchemaCheck(node, schema) :
                 IF outcome \in {"pass", "update"}
                 THEN /\ operators_' =
                           IF outcome = "update"
                           THEN Update(operators_, found,
                                       updateSchemaAliasAnalysis(node, schema.kind))
                           ELSE operators_
                      /\ Goto(t, [pc |-> "registerDef_refcount", op |-> found])
                      /\ UNCHANGED <<mutex_, nextId>>
                 ELSE /\ mutex_' = NoThread
                      /\ Return(t, [op |-> "registerDef", ret |-> outcome,
                                    schema |-> schema])
                      /\ UNCHANGED <<operators_, nextId>>
          ELSE /\ operators_' =
                    Append(operators_, NewOperatorDef(nextId, schema.name, schema))
               /\ nextId' = nextId + 1
               /\ Goto(t, [pc |-> "lookup_write", op |-> nextId,
                           then |-> "registerDef_refcount"])
               /\ UNCHANGED mutex_
    /\ UNCHANGED <<operatorLookupTable_, listeners_, handles, fallbackVars>>

\* Lines 84-88 and 101-105: the new handle goes into the lookup table.
LookupWrite(t) ==
    /\ thr[t].pc = "lookup_write"
    /\ operatorLookupTable_' =
         LookupEmplace(operatorLookupTable_,
                       Deref(operators_, thr[t].op).name, thr[t].op)
    /\ Goto(t, [pc |-> thr[t].then])
    /\ UNCHANGED <<operators_, listeners_, mutex_, nextId, handles, fallbackVars>>

\* (mutant) ++weak_refcount is missing.
DefIncrement_NoWeak(node) == [node EXCEPT !.refcount = @ + 1]

\* Lines 117-118: ++refcount, ++weak_refcount.
DefIncrement(node) ==
    [node EXCEPT !.refcount = @ + 1, !.weak_refcount = @ + 1]

\* (mutant) the listeners hear of every definition.
DefNotifies_Always(node) == TRUE

\* Line 119: the listeners hear of the first definition only.
DefNotifies(node) == node.refcount = 1

\* Lines 117-127: the refcounts, the listeners, the handle.
RegisterDefRefcount(t) ==
    /\ thr[t].pc = "registerDef_refcount"
    /\ LET op == thr[t].op
           node == DefIncrement(Deref(operators_, op))
       IN /\ operators_' = Update(operators_, op, node)
          /\ listeners_' = IF DefNotifies(node)
                           THEN callOnOperatorRegistered(listeners_, op)
                           ELSE listeners_
          /\ handles' = handles (+) SetToBag({DefHandle(op, thr[t].schema.name)})
          /\ mutex_' = NoThread
          /\ Return(t, [op |-> "registerDef", ret |-> "ok",
                        schema |-> thr[t].schema, handle |-> op])
    /\ UNCHANGED <<operatorLookupTable_, nextId, fallbackVars>>

\* ------------------------------------------------------------ deregisterDef_
\* The handle of a definition is disposed; lines 129-131: the lock.
DisposeDef(t, h) ==
    /\ CanCall(t)
    /\ BagIn(h, handles) /\ h.kind = "def"
    /\ LockFree
    /\ mutex_' = t
    /\ handles' = handles (-) SetToBag({h})
    /\ Call(t, [pc |-> "deregisterDef_", fn |-> "deregisterDef_", h |-> h,
                pre |-> Snapshot])
    /\ UNCHANGED <<operators_, operatorLookupTable_, listeners_, nextId,
                   fallbackVars>>

\* Lines 133-137: TORCH_INTERNAL_ASSERTs of deregisterDef_.
DeregisterDefAsserts(node, op_name) ==
    /\ node.schema # NoSchema
    /\ node.schema.name = op_name
    /\ node.refcount > 0
    /\ node.weak_refcount > 0

\* Lines 138-139: --refcount, --weak_refcount.
DefDecrement(node) ==
    [node EXCEPT !.refcount = @ - 1, !.weak_refcount = @ - 1]

\* Line 140: the listeners hear of the last definition going.
DefDeregisterNotifies(node) == node.refcount = 0

\* Lines 133-145: the assertions, the refcounts, the listeners.
DeregisterDef_(t) ==
    /\ thr[t].pc = "deregisterDef_"
    /\ LET op == thr[t].h.op
           node == Deref(operators_, op)
       IN IF DeregisterDefAsserts(node, thr[t].h.op_name)
          THEN /\ operators_' = Update(operators_, op, DefDecrement(node))
               /\ listeners_' = IF DefDeregisterNotifies(DefDecrement(node))
                                THEN callOnOperatorDeregistered(listeners_, op)
                                ELSE listeners_
               /\ Goto(t, [pc |-> "deregisterDef_erase"])
               /\ UNCHANGED mutex_
          ELSE /\ mutex_' = NoThread
               /\ Return(t, [op |-> "dispose", ret |-> "internal_assert",
                             h |-> thr[t].h])
               /\ UNCHANGED <<operators_, listeners_>>
    /\ UNCHANGED <<operatorLookupTable_, nextId, handles, fallbackVars>>

\* (mutant) the entry goes when the last definition goes.
ShouldErase_Strong(node) == node.refcount = 0

\* Lines 146 and 180: the entry goes when nothing refers to it.
ShouldErase(node) == node.weak_refcount = 0

\* OperatorEntry::prepareForDeregistration: no kernel may be left.
prepareForDeregistration(node) == node.kernels = EmptyBag

\* Lines 146-149 (and 180-183): prepareForDeregistration, operators_.erase.
EraseStep(t, next) ==
    LET op == thr[t].h.op
        node == Deref(operators_, op)
    IN IF ShouldErase(node)
       THEN IF prepareForDeregistration(node)
            THEN /\ operators_' = Erase(operators_, op)
                 /\ Goto(t, [pc |-> next])
                 /\ UNCHANGED mutex_
            ELSE /\ mutex_' = NoThread
                 /\ Return(t, [op |-> "dispose", ret |-> "internal_assert",
                               h |-> thr[t].h])
                 /\ UNCHANGED operators_
       ELSE /\ mutex_' = NoThread
            /\ Return(t, [op |-> "dispose", ret |-> "ok", h |-> thr[t].h])
            /\ UNCHANGED operators_

\* Lines 150-153 (and 184-187): operatorLookupTable.erase, the lock released.
LookupEraseStep(t) ==
    /\ operatorLookupTable_' =
         LookupErase(operatorLookupTable_, thr[t].h.op_name)
    /\ mutex_' = NoThread
    /\ Return(t, [op |-> "dispose", ret |-> "ok", h |-> thr[t].h])

DeregisterDefErase(t) ==
    /\ thr[t].pc = "deregisterDef_erase"
    /\ EraseStep(t, "deregisterDef_lookup_erase")
    /\ UNCHANGED <<operatorLookupTable_, listeners_, nextId, handles, fallbackVars>>

DeregisterDefLookupErase(t) ==
    /\ thr[t].pc = "deregisterDef_lookup_erase"
    /\ LookupEraseStep(t)
    /\ UNCHANGED <<operators_, listeners_, nextId, handles, fallbackVars>>

\* ------------------------------------------------------------- registerImpl
\* Lines 156-157: the call, the lock.
RegisterImpl(t, op_name, dispatch_key) ==
    /\ CanCall(t)
    /\ LockFree
    /\ mutex_' = t
    /\ Call(t, [pc |-> "findOrRegisterWithName_", fn |-> "registerImpl",
                op_name |-> op_name, dispatch_key |-> dispatch_key,
                pre |-> Snapshot])
    /\ UNCHANGED <<operators_, operatorLookupTable_, listeners_, nextId,
                   handles, fallbackVars>>

\* Lines 93-100: findOrRegisterWithName_ up to the new list node.
FindOrRegisterWithName_(t) ==
    /\ thr[t].pc = "findOrRegisterWithName_"
    /\ LET found == findSchema(thr[t].op_name)
       IN IF found # nullopt
          THEN /\ Goto(t, [pc |-> "registerImpl_kernel", op |-> found])
               /\ UNCHANGED <<operators_, nextId>>
          ELSE /\ operators_' =
                    Append(operators_,
                           NewOperatorDef(nextId, thr[t].op_name, NoSchema))
               /\ nextId' = nextId + 1
               /\ Goto(t, [pc |-> "lookup_write", op |-> nextId,
                           then |-> "registerImpl_kernel"])
    /\ UNCHANGED <<operatorLookupTable_, listeners_, mutex_, handles, fallbackVars>>

\* Line 163: ++weak_refcount.
ImplIncrement(node) == [node EXCEPT !.weak_refcount = @ + 1]

\* Lines 161-169: the kernel, the weak refcount, the handle.
RegisterImplKernel(t) ==
    /\ thr[t].pc = "registerImpl_kernel"
    /\ LET op == thr[t].op
           node == ImplIncrement(
                       registerKernel(Deref(operators_, op), thr[t].dispatch_key))
       IN /\ operators_' = Update(operators_, op, node)
          /\ handles' = handles (+)
               SetToBag({ImplHandle(op, thr[t].op_name, thr[t].dispatch_key)})
          /\ mutex_' = NoThread
          /\ Return(t, [op |-> "registerImpl", ret |-> "ok",
                        op_name |-> thr[t].op_name, handle |-> op])
    /\ UNCHANGED <<operatorLookupTable_, listeners_, nextId, fallbackVars>>

\* ------------------------------------------------------------ deregisterImpl_
\* The handle of an implementation is disposed; line 166: deregisterKernel_,
\* which runs before deregisterImpl_ takes the lock.
DisposeImpl(t, h) ==
    /\ CanCall(t)
    /\ BagIn(h, handles) /\ h.kind = "impl"
    /\ handles' = handles (-) SetToBag({h})
    /\ operators_' = Update(operators_, h.op,
                            deregisterKernel_(Deref(operators_, h.op),
                                              h.dispatch_key))
    /\ Call(t, [pc |-> "deregisterImpl_lock", fn |-> "deregisterImpl_",
                h |-> h])
    /\ UNCHANGED <<operatorLookupTable_, listeners_, mutex_, nextId,
                   fallbackVars>>

\* Lines 173-174: deregisterImpl_ takes the lock.
DeregisterImplLock(t) ==
    /\ thr[t].pc = "deregisterImpl_lock"
    /\ LockFree
    /\ mutex_' = t
    /\ Goto(t, [pc |-> "deregisterImpl_",
                pre |-> [Snapshot EXCEPT
                           !.handles = handles (+) SetToBag({thr[t].h})]])
    /\ UNCHANGED <<operators_, operatorLookupTable_, listeners_, nextId,
                   handles, fallbackVars>>

\* Lines 176-178: TORCH_INTERNAL_ASSERTs of deregisterImpl_.
DeregisterImplAsserts(node, op_name) ==
    /\ node.name = op_name
    /\ node.weak_refcount > 0

\* (mutant) the disposal of an implementation also drops the strong refcount.
ImplDecrement_Both(node) ==
    [node EXCEPT !.refcount = @ - 1, !.weak_refcount = @ - 1]

\* Line 179: --weak_refcount.
ImplDecrement(node) == [node EXCEPT !.weak_refcount = @ - 1]

\* Lines 176-179: the assertions, the weak refcount.
DeregisterImpl_(t) ==
    /\ thr[t].pc = "deregisterImpl_"
    /\ LET op == thr[t].h.op
           node == Deref(operators_, op)
       IN IF DeregisterImplAsserts(node, thr[t].h.op_name)
          THEN /\ operators_' = Update(operators_, op, ImplDecrement(node))
               /\ Goto(t, [pc |-> "deregisterImpl_erase"])
               /\ UNCHANGED mutex_
          ELSE /\ mutex_' = NoThread
               /\ Return(t, [op |-> "dispose", ret |-> "internal_assert",
                             h |-> thr[t].h])
               /\ UNCHANGED operators_
    /\ UNCHANGED <<operatorLookupTable_, listeners_, nextId, handles, fallbackVars>>

DeregisterImplErase(t) ==
    /\ thr[t].pc = "deregisterImpl_erase"
    /\ EraseStep(t, "deregisterImpl_lookup_erase")
    /\ UNCHANGED <<operatorLookupTable_, listeners_, nextId, handles, fallbackVars>>

DeregisterImplLookupErase(t) ==
    /\ thr[t].pc = "deregisterImpl_lookup_erase"
    /\ LookupEraseStep(t)
    /\ UNCHANGED <<operators_, listeners_, nextId, handles, fallbackVars>>

\* -------------------------------------------------- addRegistrationListener
\* Lines 209-210: the call, the lock.
AddRegistrationListener(t) ==
    /\ CanCall(t)
    /\ LockFree
    /\ mutex_' = t
    /\ Call(t, [pc |-> "addListener_replay", fn |-> "addRegistrationListener",
                pre |-> Snapshot])
    /\ UNCHANGED <<operators_, operatorLookupTable_, listeners_, nextId,
                   handles, fallbackVars>>

\* (mutant) nothing is replayed to a new listener.
Replay_Nothing(ops) == <<>>

\* Lines 212-214: onOperatorRegistered for every node of operators_, in
\* list order.
Replay(ops) == [i \in DOMAIN ops |-> Event("registered", ops[i].id)]

AddListenerReplay(t) ==
    /\ thr[t].pc = "addListener_replay"
    /\ Goto(t, [pc |-> "addListener_add", listener |-> Replay(operators_)])
    /\ UNCHANGED <<operators_, operatorLookupTable_, listeners_, mutex_,
                   nextId, handles, fallbackVars>>

\* Line 216 (and lines 9-11): listeners_.push_back, the lock released.
AddListenerAdd(t) ==
    /\ thr[t].pc = "addListener_add"
    /\ listeners_' = Append(listeners_, thr[t].listener)
    /\ mutex_' = NoThread
    /\ Return(t, [op |-> "addRegistrationListener", ret |-> "ok",
                  replayed |-> thr[t].listener])
    /\ UNCHANGED <<operators_, operatorLookupTable_, nextId, handles, fallbackVars>>

\* --------------------------------------------------------------- findSchema
\* Lines 46-54: a read of the lookup table; no lock.
FindSchema(t, name) ==
    /\ CanCall(t)
    /\ nCalls' = nCalls + 1
    /\ last' = [op |-> "findSchema", ret |-> findSchema(name), name |-> name,
                fn |-> "findSchema", pre |-> Snapshot]
    /\ UNCHANGED <<operators_, operatorLookupTable_, listeners_, mutex_,
                   nextId, handles, thr, fallbackVars>>

\* --------------------------------------------------------- registerFallback
\* KernelFunctionTable::setKernel: the slot is filled when it was empty.
setKernel(table, key, kernel) ==
    IF table[key] = NoKernel THEN [table EXCEPT ![key] = kernel] ELSE table

\* (mutant) the result of setKernel is not checked.
AddedNewKernel_Unchecked(table, key) == TRUE

\* SetKernelResult::ADDED_NEW_KERNEL
AddedNewKernel(table, key) == table[key] = NoKernel

\* KernelFunctionTable::removeKernelIfExists
removeKernelIfExists(table, key) == [table EXCEPT ![key] = NoKernel]

\* RemoveKernelIfExistsResult::REMOVED_KERNEL
RemovedKernel(table, key) == table[key] # NoKernel

\* KernelFunction::isFallthrough
isFallthrough(kernel) == kernel = "fallthrough"

\* Lines 190-192: setKernel and its TORCH_CHECK; no lock is taken.
RegisterFallback(t, dispatchKey, kernel) ==
    /\ CanCall(t)
    /\ backendFallbackKernels_' =
         setKernel(backendFallbackKernels_, dispatchKey, kernel)
    /\ nCalls' = nCalls + 1
    /\ IF AddedNewKernel(backendFallbackKernels_, dispatchKey)
       THEN /\ thr' = [thr EXCEPT ![t] =
                        [pc |-> "registerFallback_isFallthrough",
                         fn |-> "registerFallback", dispatchKey |-> dispatchKey,
                         kernel |-> kernel, pre |-> Snapshot]]
            /\ last' = NoLast
       ELSE /\ last' = [op |-> "registerFallback", ret |-> "duplicate_fallback",
                        dispatchKey |-> dispatchKey, kernel |-> kernel,
                        fn |-> "registerFallback", pre |-> Snapshot]
            /\ UNCHANGED thr
    /\ UNCHANGED <<registryVars, handles, backendsWithoutFallthrough_>>

\* (mutant) the test of line 193 is negated.
FallbackTouchesBitset_Negated(kernel) == ~isFallthrough(kernel)

\* Line 193: only a fallthrough kernel changes backendsWithoutFallthrough_.
FallbackTouchesBitset(kernel) == isFallthrough(kernel)

\* Lines 193-194: backendsWithoutFallthrough_ is read.
RegisterFallbackRead(t) ==
    /\ thr[t].pc = "registerFallback_isFallthrough"
    /\ IF FallbackTouchesBitset(thr[t].kernel)
       THEN Goto(t, [pc |-> "registerFallback_write",
                     read |-> backendsWithoutFallthrough_])
       ELSE Goto(t, [pc |-> "registerFallback_return"])
    /\ UNCHANGED <<registryVars, handles, fallbackVars>>

\* Line 194: backendsWithoutFallthrough_ = (what was read).remove(dispatchKey)
RegisterFallbackWrite(t) ==
    /\ thr[t].pc = "registerFallback_write"
    /\ backendsWithoutFallthrough_' = thr[t].read \ {thr[t].dispatchKey}
    /\ Goto(t, [pc |-> "registerFallback_return"])
    /\ UNCHANGED <<registryVars, handles, backendFallbackKernels_>>

\* Lines 197-199: the handle.
RegisterFallbackReturn(t) ==
    /\ thr[t].pc = "registerFallback_return"
    /\ handles' = handles (+) SetToBag({FallbackHandle(thr[t].dispatchKey)})
    /\ Return(t, [op |-> "registerFallback", ret |-> "ok",
                  dispatchKey |-> thr[t].dispatchKey, kernel |-> thr[t].kernel])
    /\ UNCHANGED <<registryVars, fallbackVars>>

\* ------------------------------------------------------ deregisterFallback_
\* Line 203: removeKernelIfExists.
DeregisterFallbackBegin(t, dispatchKey, how) ==
    /\ backendFallbackKernels_' =
         removeKernelIfExists(backendFallbackKernels_, dispatchKey)
    /\ Call(t, [pc |-> "deregisterFallback_read", fn |-> how,
                dispatchKey |-> dispatchKey,
                removed |-> RemovedKernel(backendFallbackKernels_, dispatchKey),
                pre |-> Snapshot])
    /\ UNCHANGED <<registryVars, backendsWithoutFallthrough_>>

\* The handle of a fallback is disposed: deregisterFallback_(dispatchKey).
DisposeFallback(t, h) ==
    /\ CanCall(t)
    /\ BagIn(h, handles) /\ h.kind = "fallback"
    /\ handles' = handles (-) SetToBag({h})
    /\ DeregisterFallbackBegin(t, h.dispatch_key, "dispose")

\* deregisterFallback_ for a key that has no fallback kernel.
DeregisterFallbackAbsent(t, dispatchKey) ==
    /\ CanCall(t)
    /\ backendFallbackKernels_[dispatchKey] = NoKernel
    /\ DeregisterFallbackBegin(t, dispatchKey, "deregisterFallback_")
    /\ UNCHANGED handles

\* Line 204: backendsWithoutFallthrough_ is read.
DeregisterFallbackRead(t) ==
    /\ thr[t].pc = "deregisterFallback_read"
    /\ Goto(t, [pc |-> "deregisterFallback_write",
                read |-> backendsWithoutFallthrough_])
    /\ UNCHANGED <<registryVars, handles, fallbackVars>>

\* Lines 204-205: backendsWithoutFallthrough_ = (what was read).add(key),
\* then the TORCH_INTERNAL_ASSERT on the result of line 203.
DeregisterFallbackWrite(t) ==
    /\ thr[t].pc = "deregisterFallback_write"
    /\ backendsWithoutFallthrough_' = thr[t].read \cup {thr[t].dispatchKey}
    /\ Return(t, [op |-> "deregisterFallback_",
                  ret |-> IF thr[t].removed THEN "ok" ELSE "internal_assert",
                  dispatchKey |-> thr[t].dispatchKey])
    /\ UNCHANGED <<registryVars, handles, backendFallbackKernels_>>

\* ------------------------------------------------------------ specification
Next ==
    \E t \in Threads :
        \/ \E schema \in Schemas : RegisterDef(t, schema)
        \/ FindOrRegisterWithSchema_(t)
        \/ LookupWrite(t)
        \/ RegisterDefRefcount(t)
        \/ \E h \in BagToSet(handles) : DisposeDef(t, h)
        \/ DeregisterDef_(t)
        \/ DeregisterDefErase(t)
        \/ DeregisterDefLookupErase(t)
        \/ \E n \in OperatorNames, k \in ImplKeys : RegisterImpl(t, n, k)
        \/ FindOrRegisterWithName_(t)
        \/ RegisterImplKernel(t)
        \/ \E h \in BagToSet(handles) : DisposeImpl(t, h)
        \/ DeregisterImplLock(t)
        \/ DeregisterImpl_(t)
        \/ DeregisterImplErase(t)
        \/ DeregisterImplLookupErase(t)
        \/ AddRegistrationListener(t)
        \/ AddListenerReplay(t)
        \/ AddListenerAdd(t)
        \/ \E n \in OperatorNames : FindSchema(t, n)

Spec == Init /\ [][Next]_vars

\* The dispatcher after one library has defined "add": the state registerDef
\* (lines 109-127) leaves behind when it is the first call, its handle live.
DefinedSchema == [name |-> "add", sig |-> "(a, b)", kind |-> "DEFAULT"]

InitDefined ==
    /\ operators_ =
         <<[NewOperatorDef(1, "add", DefinedSchema)
               EXCEPT !.refcount = 1, !.weak_refcount = 1]>>
    /\ operatorLookupTable_ = ("add" :> 1)
    /\ backendFallbackKernels_ = [k \in DispatchKeys |-> NoKernel]
    /\ backendsWithoutFallthrough_ = DispatchKeys
    /\ listeners_ = <<>>
    /\ mutex_ = NoThread
    /\ handles = SetToBag({DefHandle(1, "add")})
    /\ thr = [t \in Threads |-> Idle]
    /\ nextId = 2
    /\ nCalls = 0
    /\ last = NoLast

\* The operators from that state on; nCalls counts the calls begun since.
SpecDefined == InitDefined /\ [][Next]_vars

\* The fallback table alone: it shares no state with the operators.
NextFallback ==
    \E t \in Threads :
        \/ \E k \in DispatchKeys, kernel \in Kernels : RegisterFallback(t, k, kernel)
        \/ RegisterFallbackRead(t)
        \/ RegisterFallbackWrite(t)
        \/ RegisterFallbackReturn(t)
        \/ \E h \in BagToSet(handles) : DisposeFallback(t, h)
        \/ \E k \in DispatchKeys : DeregisterFallbackAbsent(t, k)
        \/ DeregisterFallbackRead(t)
        \/ DeregisterFallbackWrite(t)

SpecFallback == Init /\ [][NextFallback]_vars

\* The fallback table as its callers reach it: registerFallback and the
\* handles it returns, from any thread at any time.
NextFallbackApi ==
    \E t \in Threads :
        \/ \E k \in DispatchKeys, kernel \in Kernels : RegisterFallback(t, k, kernel)
        \/ RegisterFallbackRead(t)
        \/ RegisterFallbackWrite(t)
        \/ RegisterFallbackReturn(t)
        \/ \E h \in BagToSet(handles) : DisposeFallback(t, h)
        \/ DeregisterFallbackRead(t)
        \/ DeregisterFallbackWrite(t)

SpecFallbackApi == Init /\ [][NextFallbackApi]_vars

\* The fallback table when no two calls overlap: a call begins only when
\* no thread is inside one.
NextFallbackSeq ==
    \E t \in Threads :
        \/ /\ \A u \in Threads : thr[u].pc = "idle"
           /\ \/ \E k \in DispatchKeys, kernel \in Kernels :
                    RegisterFallback(t, k, kernel)
              \/ \E h \in BagToSet(handles) : DisposeFallback(t, h)
              \/ \E k \in DispatchKeys : DeregisterFallbackAbsent(t, k)
        \/ RegisterFallbackRead(t)
        \/ RegisterFallbackWrite(t)
        \/ RegisterFallbackReturn(t)
        \/ DeregisterFallbackRead(t)
        \/ DeregisterFallbackWrite(t)

SpecFallbackSeq == Init /\ [][NextFallbackSeq]_vars

\* ------------------------------------------------------------------ claims
AllIdle == \A t \in Threads : thr[t].pc = "idle"

\* The handles whose release action has not yet reached deregisterImpl_:
\* the closure of an implementation runs line 166 before it takes the lock.
InDisposal(kind, name) ==
    {t \in Threads : /\ thr[t].pc = "deregisterImpl_lock"
                     /\ thr[t].h.kind = kind
                     /\ thr[t].h.op_name = name}

RECURSIVE SumCopies(_)
SumCopies(S) ==
    IF S = {} THEN 0
    ELSE LET h == CHOOSE x \in S : TRUE
         IN CopiesIn(h, handles) + SumCopies(S \ {h})

\* Number of live (undisposed) handles of a kind for a name.
LiveHandles(kind, name) ==
    SumCopies({h \in BagToSet(handles) : h.kind = kind /\ h.op_name = name})
        + Cardinality(InDisposal(kind, name))

\* The entry of a name in a list of operators (Dangling when it has none).
EntryOf(ops, name) ==
    IF \E i \in DOMAIN ops : ops[i].name = name
    THEN ops[CHOOSE i \in DOMAIN ops : ops[i].name = name]
    ELSE Dangling

HasEntry(ops, name) == \E i \in DOMAIN ops : ops[i].name = name

\* C1: whenever mutex_ is free, every entry's refcount is the number of live
\* definition handles for its name, its weak_refcount is that plus the number
\* of live implementation handles for its name, and 0 <= refcount <=
\* weak_refcount.
C1_Refcounts ==
    LockFree =>
        \A i \in DOMAIN operators_ :
            LET e == operators_[i]
            IN /\ e.refcount = LiveHandles("def", e.name)
               /\ e.weak_refcount = e.refcount + LiveHandles("impl", e.name)
               /\ 0 <= e.refcount
               /\ e.refcount <= e.weak_refcount

\* An implementation handle was disposed and left an entry with one
\* definition and one implementation.
C1_Witness ==
    /\ last.op = "dispose" /\ last.ret = "ok" /\ last.h.kind = "impl"
    /\ LockFree
    /\ LET e == EntryOf(operators_, last.h.op_name)
       IN e.refcount = 1 /\ e.weak_refcount = 2

\* C2: whenever mutex_ is free, findSchema(name) returns a handle exactly
\* when a definition or implementation handle for the name is live; so the
\* disposal of the last live handle removes the name and any other disposal
\* leaves it findable.
C2_FindableIffLive ==
    /\ LockFree =>
         \A n \in OperatorNames :
            findSchema(n) # nullopt <=>
                LiveHandles("def", n) + LiveHandles("impl", n) > 0
    /\ (last.op = "dispose" /\ AllIdle) =>
         LET n == last.h.op_name
             left == LiveHandles("def", n) + LiveHandles("impl", n)
         IN IF left = 0 THEN findSchema(n) = nullopt
            ELSE findSchema(n) = last.h.op

\* The last handle of a name was disposed, and the name, found before, is
\* no longer found.
C2_Witness ==
    /\ last.op = "dispose" /\ last.ret = "ok" /\ AllIdle
    /\ last.h.op_name \in DOMAIN last.pre.lookup
    /\ findSchema(last.h.op_name) = nullopt
    /\ \E n \in OperatorNames : findSchema(n) # nullopt

\* C3: a name with no live registration is not found, and after
\* registerDef(schema) has succeeded for such a name findSchema returns a
\* handle to an entry whose schema is the registered schema.
C3_FindAfterRegisterDef ==
    /\ (last.op = "findSchema" /\ AllIdle
          /\ LiveHandles("def", last.name) + LiveHandles("impl", last.name) = 0)
         => last.ret = nullopt
    /\ (last.op = "registerDef"
          /\ last.schema.name \notin DOMAIN last.pre.lookup)
         => /\ last.ret = "ok"
            /\ findSchema(last.schema.name) # nullopt
            /\ findSchema(last.schema.name) = last.handle
            /\ findSchema(last.schema.name) \in Ids(operators_)
            /\ Deref(operators_, findSchema(last.schema.name)).schema
                 = last.schema

\* registerDef has just succeeded for a name that was not found before.
C3_Witness ==
    /\ last.op = "registerDef" /\ last.ret = "ok"
    /\ last.schema.name \notin DOMAIN last.pre.lookup
    /\ findSchema(last.schema.name) # nullopt

\* C4: when registerImpl created the entry of a name (no schema), a later
\* registerDef(schema) for the name succeeds, stores the schema in the
\* entry and brings the refcounts to (1, 2).
C4_DefAfterImpl ==
    (/\ last.op = "registerDef"
     /\ HasEntry(last.pre.operators, last.schema.name)
     /\ EntryOf(last.pre.operators, last.schema.name).schema = NoSchema
     /\ EntryOf(last.pre.operators, last.schema.name).weak_refcount = 1)
    => /\ last.ret = "ok"
       /\ LET e == EntryOf(operators_, last.schema.name)
          IN e.schema = last.schema /\ e.refcount = 1 /\ e.weak_refcount = 2

\* C5: registerDef with a schema that differs from the one stored for the
\* name fails with the schema conflict and changes nothing: the entries
\* (schema, refcounts), the list, the lookup table and the listeners' events
\* are as the call found them.
C5_ConflictChangesNothing ==
    (/\ last.op = "registerDef"
     /\ HasEntry(last.pre.operators, last.schema.name)
     /\ EntryOf(last.pre.operators, last.schema.name).schema # NoSchema
     /\ SchemaDiffers(EntryOf(last.pre.operators, last.schema.name).schema,
                      last.schema))
    => /\ last.ret = "schema_conflict"
       /\ View(operators_) = View(last.pre.operators)
       /\ operatorLookupTable_ = last.pre.lookup
       /\ listeners_ = last.pre.listeners

\* registerDef has just failed on a name whose entry has another schema,
\* with a listener there to hear of it.
C5_Witness ==
    /\ last.op = "registerDef" /\ last.ret = "schema_conflict"
    /\ EntryOf(last.pre.operators, last.schema.name).schema # NoSchema
    /\ EntryOf(operators_, last.schema.name).refcount = 1
    /\ Len(listeners_) = 1

\* The two kinds are concrete and differ.
KindsClash(stored, schema) ==
    /\ stored # NoSchema
    /\ ~SchemaDiffers(stored, schema)
    /\ stored.kind # "DEFAULT" /\ schema.kind # "DEFAULT"
    /\ stored.kind # schema.kind

\* C6: registerDef of a schema with a concrete kind, for a name whose stored
\* schema is structurally equal with another concrete kind, fails; the
\* stored kind and the refcounts are unchanged, and every definition handle
\* of the name is still live and passes the assertions of deregisterDef_.
C6_KindClashFails ==
    (/\ last.op = "registerDef"
     /\ HasEntry(last.pre.operators, last.schema.name)
     /\ KindsClash(EntryOf(last.pre.operators, last.schema.name).schema,
                   last.schema))
    => /\ last.ret = "alias_conflict"
       /\ View(operators_) = View(last.pre.operators)
       /\ \A h \in BagToSet(last.pre.handles) :
            (h.kind = "def" /\ h.op_name = last.schema.name)
            => /\ CopiesIn(h, handles) = CopiesIn(h, last.pre.handles)
               /\ DeregisterDefAsserts(Deref(operators_, h.op), h.op_name)

\* registerDef has just failed on the kind, and the first definition's
\* handle is live.
C6_Witness ==
    /\ last.op = "registerDef" /\ last.ret = "alias_conflict"
    /\ EntryOf(operators_, last.schema.name).schema.kind = "K1"
    /\ last.schema.kind = "K2"
    /\ LiveHandles("def", last.schema.name) = 1

\* C7: registerDef of the schema already registered once for the name
\* succeeds, appends no entry, returns a handle to the entry of the first
\* registration and leaves the refcounts at (2, 2).
C7_SameSchemaTwice ==
    (/\ last.op = "registerDef"
     /\ HasEntry(last.pre.operators, last.schema.name)
     /\ LET e == EntryOf(last.pre.operators, last.schema.name)
        IN e.schema = last.schema /\ e.refcount = 1 /\ e.weak_refcount = 1)
    => /\ last.ret = "ok"
       /\ Len(operators_) = Len(last.pre.operators)
       /\ LET e == EntryOf(last.pre.operators, last.schema.name)
              now == Deref(operators_, e.id)
          IN /\ last.handle = e.id
             /\ now.refcount = 2 /\ now.weak_refcount = 2
             /\ CopiesIn(DefHandle(e.id, e.name), handles) = 2
             /\ Cardinality({i \in DOMAIN operators_ :
                                operators_[i].name = e.name}) = 1

\* The same schema has just been registered a second time.
C7_Witness ==
    /\ last.op = "registerDef" /\ last.ret = "ok"
    /\ HasEntry(last.pre.operators, last.schema.name)
    /\ EntryOf(last.pre.operators, last.schema.name).schema = last.schema
    /\ EntryOf(operators_, last.schema.name).refcount = 2

IsPrefix(a, b) == Len(a) <= Len(b) /\ \A i \in DOMAIN a : a[i] = b[i]

\* C8: addRegistrationListener gives the new listener one "registered"
\* event per entry of operators_, in list order, before any live event, and
\* operators_ does not change between the call, the replay and the
\* push_back of the listener.
C8_ReplayOnAdd ==
    /\ last.op = "addRegistrationListener" =>
         /\ Len(listeners_) = Len(last.pre.listeners) + 1
         /\ listeners_[Len(listeners_)] =
              [i \in DOMAIN last.pre.operators |->
                 [ev |-> "registered", op |-> last.pre.operators[i].id]]
         /\ View(operators_) = View(last.pre.operators)
    /\ \A t \in Threads :
         thr[t].pc = "addListener_add" =>
            /\ View(operators_) = View(thr[t].pre.operators)
            /\ thr[t].listener =
                 [i \in DOMAIN operators_ |->
                    [ev |-> "registered", op |-> operators_[i].id]]
    /\ (last.op \in {"registerDef", "registerImpl", "dispose"}) =>
         /\ Len(listeners_) = Len(last.pre.listeners)
         /\ \A i \in DOMAIN listeners_ :
              IsPrefix(last.pre.listeners[i], listeners_[i])

\* A listener has just been added with two operators registered.
C8_Witness ==
    /\ last.op = "addRegistrationListener"
    /\ Len(last.pre.operators) = 2
    /\ Len(listeners_[Len(listeners_)]) = 2
    /\ listeners_[Len(listeners_)][1].op # listeners_[Len(listeners_)][2].op

\* C9: no listener receives "deregistered" for an entry before it has
\* received "registered" (live or replayed) for the same entry.
C9_RegisteredBeforeDeregistered ==
    \A l \in DOMAIN listeners_ :
        \A j \in DOMAIN listeners_[l] :
            listeners_[l][j].ev = "deregistered" =>
                \E i \in 1..(j - 1) :
                    /\ listeners_[l][i].ev = "registered"
                    /\ listeners_[l][i].op = listeners_[l][j].op

\* A listener added after the definition hears of its deregistration.
C9_Witness ==
    /\ last.op = "dispose" /\ last.h.kind = "def"
    /\ \E l \in DOMAIN listeners_ :
         /\ Len(listeners_[l]) = 2
         /\ listeners_[l][1] = [ev |-> "registered", op |-> last.h.op]
         /\ listeners_[l][2] = [ev |-> "deregistered", op |-> last.h.op]
         /\ Len(last.pre.listeners[l]) = 1

\* C10: registerFallback for a key that has a fallback fails as a duplicate
\* and leaves backendsWithoutFallthrough_ as it was; deregisterFallback_ for
\* a key without fallback fails the internal assertion; registerFallback
\* succeeds whenever the key has no fallback, and with no call in progress
\* a key has a fallback exactly while a handle for it is live, so it can be
\* registered again once its handle is disposed.
C10_FallbackErrors ==
    /\ last.op = "registerFallback" =>
         IF last.pre.kernels[last.dispatchKey] # NoKernel
         THEN /\ last.ret = "duplicate_fallback"
              /\ backendsWithoutFallthrough_ = last.pre.bitset
         ELSE last.ret = "ok"
    /\ last.op = "deregisterFallback_" =>
         (last.ret = "internal_assert"
            <=> last.pre.kernels[last.dispatchKey] = NoKernel)
    /\ AllIdle =>
         \A k \in DispatchKeys :
            backendFallbackKernels_[k] # NoKernel
                <=> BagIn(FallbackHandle(k), handles)

\* A fallback was registered, its handle disposed, and the key registered
\* again.
C10_Witness ==
    /\ last.op = "registerFallback" /\ last.ret = "ok"
    /\ nCalls = 3
    /\ last.pre.kernels[last.dispatchKey] = NoKernel

\* C11: a thread that calls findSchema, at any point of a registration or a
\* deregistration run by another thread, never obtains a handle whose entry
\* is not in operators_.
C11_NoDanglingLookup ==
    (last.op = "findSchema" /\ last.ret # nullopt)
        => last.ret \in Ids(operators_)

\* C12 (as stated): after any sequence of fallback registrations and
\* deregistrations a key is absent from backendsWithoutFallthrough_ exactly
\* when a non-fallthrough fallback is installed for it.
C12_AbsentIffNonFallthrough ==
    AllIdle =>
        \A k \in DispatchKeys :
            k \notin backendsWithoutFallthrough_
                <=> backendFallbackKernels_[k] = "kernel"

\* C12 (amended): registerFallback installs the kernel and removes the key
\* from backendsWithoutFallthrough_ if the kernel is a fallthrough (any other
\* kernel leaves the set as it is); deregisterFallback_ puts the key back;
\* after any sequence of calls that do not overlap, a key is absent from the
\* set exactly when a fallthrough fallback is installed for it.
C12_AbsentIffFallthrough ==
    /\ (last.op = "registerFallback" /\ last.ret = "ok") =>
         /\ backendFallbackKernels_[last.dispatchKey] = last.kernel
         /\ backendsWithoutFallthrough_ =
              IF last.kernel = "fallthrough"
              THEN last.pre.bitset \ {last.dispatchKey}
              ELSE last.pre.bitset
    /\ last.op = "deregisterFallback_" =>
         backendsWithoutFallthrough_ = last.pre.bitset \cup {last.dispatchKey}
    /\ AllIdle =>
         \A k \in DispatchKeys :
            k \notin backendsWithoutFallthrough_
                <=> backendFallbackKernels_[k] = "fallthrough"

\* A fallthrough fallback was registered and disposed, a kernel fallback is
\* installed for the other key, and only that state of the table shows in
\* the set.
C12_Witness ==
    /\ last.op = "deregisterFallback_" /\ last.ret = "ok"
    /\ last.pre.kernels[last.dispatchKey] = "fallthrough"
    /\ last.dispatchKey \notin last.pre.bitset
    /\ backendsWithoutFallthrough_ = DispatchKeys
    /\ \E k \in DispatchKeys : backendFallbackKernels_[k] = "kernel"

\* C13: when threads register or deregister fallbacks concurrently, no
\* update of backendsWithoutFallthrough_ is lost: once the calls have
\* returned the set is what the calls give in a serial order, which for calls
\* on different keys is every key but those with a fallthrough fallback.
C13_NoLostUpdate ==
    AllIdle =>
        backendsWithoutFallthrough_ =
            {k \in DispatchKeys : backendFallbackKernels_[k] # "fallthrough"}

\* Every listener of `before` with one more event at the end.
WithEvent(before, ev, op) ==
    [i \in DOMAIN before |-> before[i] \o <<[ev |-> ev, op |-> op]>>]

\* C14: the listeners already added receive one "registered" event when a
\* registerDef takes a refcount from 0 to 1 and one "deregistered" event
\* when the disposal of a definition takes it from 1 to 0; a registerDef on
\* refcount >= 1, a disposal that leaves refcount >= 1, and every
\* registerImpl and disposal of an implementation deliver nothing.
C14_EventsAtZeroCrossings ==
    /\ (last.op = "registerDef" /\ last.ret = "ok") =>
         listeners_ =
            IF EntryOf(last.pre.operators, last.schema.name).refcount = 0
            THEN WithEvent(last.pre.listeners, "registered", last.handle)
            ELSE last.pre.listeners
    /\ (last.op = "dispose" /\ last.ret = "ok" /\ last.h.kind = "def") =>
         listeners_ =
            IF Deref(last.pre.operators, last.h.op).refcount = 1
            THEN WithEvent(last.pre.listeners, "deregistered", last.h.op)
            ELSE last.pre.listeners
    /\ (last.op = "registerImpl"
          \/ (last.op = "dispose" /\ last.h.kind = "impl")) =>
         listeners_ = last.pre.listeners

\* With a listener added, a second definition of a name has just been
\* registered, and the listener has heard of the first one only.
C14_Witness ==
    /\ last.op = "registerDef" /\ last.ret = "ok"
    /\ EntryOf(last.pre.operators, last.schema.name).refcount = 1
    /\ Len(listeners_) = 1
    /\ listeners_[1] = <<[ev |-> "registered", op |-> last.handle]>>
    /\ last.pre.listeners = listeners_

\* findSchema(name) returns the handle `op`, and its entry is in the list.
Resolvable(name, op) == findSchema(name) = op /\ op \in Ids(operators_)

\* C15: when a listener's callback runs the operator is resolvable:
\* "registered" is delivered (lines 119-122) with the entry in operators_ and
\* in the lookup table, "deregistered" (lines 140-145) before the entry is
\* erased from either, so findSchema(name) in the callback returns the
\* handle the callback is given.
C15_ResolvableInCallbacks ==
    /\ \A t \in Threads :
         /\ thr[t].pc = "registerDef_refcount"
              => Resolvable(thr[t].schema.name, thr[t].op)
         /\ thr[t].pc \in {"deregisterDef_", "deregisterDef_erase"}
              => Resolvable(thr[t].h.op_name, thr[t].h.op)
         /\ thr[t].pc = "addListener_replay"
              => \A i \in DOMAIN operators_ :
                    Resolvable(operators_[i].name, operators_[i].id)
    /\ (last.op = "registerDef" /\ last.ret = "ok")
         => Resolvable(last.schema.name, last.handle)

\* The listener has just been told that the last definition is gone; the
\* entry, which nothing refers to any more, is still found.
C15_Witness ==
    \E t \in Threads :
        /\ thr[t].pc = "deregisterDef_erase"
        /\ Len(listeners_) = 1
        /\ Len(listeners_[1]) = 2
        /\ listeners_[1][2] = [ev |-> "deregistered", op |-> thr[t].h.op]
        /\ Deref(operators_, thr[t].h.op).weak_refcount = 0
        /\ findSchema(thr[t].h.op_name) = thr[t].h.op

\* C16: whenever mutex_ is free, operators_ holds at most one entry per
\* name, and the keys of the lookup table are the names of the entries, each
\* mapped to the handle of its entry; two threads that register the same
\* new name create one entry.
C16_OneEntryPerName ==
    mutex_ = NoThread =>
        /\ \A i, j \in DOMAIN operators_ :
              operators_[i].name = operators_[j].name => i = j
        /\ DOMAIN operatorLookupTable_ =
              {operators_[i].name : i \in DOMAIN operators_}
        /\ \A i \in DOMAIN operators_ :
              operatorLookupTable_[operators_[i].name] = operators_[i].id

\* Both threads have registered the same name, one an implementation and
\* the other a definition and an implementation, and the name has one entry.
C16_Witness ==
    /\ mutex_ = NoThread /\ AllIdle
    /\ Len(operators_) = 1
    /\ operators_[1].weak_refcount = 3
    /\ operators_[1].refcount = 1
    /\ operatorLookupTable_ = (operators_[1].name :> operators_[1].id)

\* The stored schema and the new one are structurally equal and exactly one
\* of their kinds is the default kind.
OneIsDefault(stored, schema) ==
    /\ stored # NoSchema
    /\ ~SchemaDiffers(stored, schema)
    /\ (stored.kind = "DEFAULT") # (schema.kind = "DEFAULT")

ConcreteKind(stored, schema) ==
    IF stored.kind = "DEFAULT" THEN schema.kind ELSE stored.kind

\* C17: registerDef for a name whose stored schema is structurally equal,
\* where exactly one of the stored and the new kinds is the default kind,
\* succeeds, and the entry's kind afterwards is the concrete kind of the
\* two, whichever was registered first.
C17_ConcreteKindWins ==
    (/\ last.op = "registerDef"
     /\ HasEntry(last.pre.operators, last.schema.name)
     /\ OneIsDefault(EntryOf(last.pre.operators, last.schema.name).schema,
                     last.schema))
    => LET e == EntryOf(last.pre.operators, last.schema.name)
           now == Deref(operators_, e.id)
       IN /\ last.ret = "ok"
          /\ last.handle = e.id
          /\ now.schema.kind = ConcreteKind(e.schema, last.schema)
          /\ now.schema.kind # "DEFAULT"
          /\ ~SchemaDiffers(now.schema, e.schema)

\* A concrete kind has just been registered over a stored default kind.
C17_Witness ==
    /\ last.op = "registerDef" /\ last.ret = "ok"
    /\ HasEntry(last.pre.operators, last.schema.name)
    /\ EntryOf(last.pre.operators, last.schema.name).schema.kind = "DEFAULT"
    /\ last.schema.kind = "K1"
    /\ EntryOf(operators_, last.schema.name).schema.kind = "K1"
    /\ EntryOf(operators_, last.schema.name).refcount = 2

\* A default kind has just been registered over a stored concrete kind.
C17_WitnessDefaultSecond ==
    /\ last.op = "registerDef" /\ last.ret = "ok"
    /\ HasEntry(last.pre.operators, last.schema.name)
    /\ EntryOf(last.pre.operators, last.schema.name).schema.kind = "K2"
    /\ last.schema.kind = "DEFAULT"
    /\ EntryOf(operators_, last.schema.name).schema.kind = "K2"

\* The events of one listener that are about one entry, in order.
EventsFor(log, id) == SelectSeq(log, LAMBDA e : e.op = id)

Alternates(s) ==
    \A i \in DOMAIN s :
        s[i].ev = IF i % 2 = 1 THEN "registered" ELSE "deregistered"

\* The state InitDefined describes, whatever the bookkeeping of the calls.
AfterFirstRegisterDef ==
    /\ View(operators_) =
         <<NodeView([NewOperatorDef(1, "add", DefinedSchema)
                        EXCEPT !.refcount = 1, !.weak_refcount = 1])>>
    /\ operators_[1].kernels = EmptyBag
    /\ operatorLookupTable_ = ("add" :> 1)
    /\ listeners_ = <<>>
    /\ mutex_ = NoThread
    /\ handles = SetToBag({DefHandle(1, "add")})
    /\ AllIdle
    /\ nextId = 2

\* C18: for every listener and every entry, the events the listener has
\* received for the entry, replayed and live, alternate between "registered"
\* and "deregistered", beginning with "registered".
C18_EventsAlternate ==
    \A l \in DOMAIN listeners_ :
        \A id \in 1..(nextId - 1) :
            Alternates(EventsFor(listeners_[l], id))

\* C19: every entry whose most recent event at some listener is "registered"
\* is still in operators_: an entry is reported as deregistered to every
\* listener that was told of it before it is erased.
C19_DeregisteredBeforeErase ==
    \A l \in DOMAIN listeners_ :
        \A id \in 1..(nextId - 1) :
            LET s == EventsFor(listeners_[l], id)
            IN (Len(s) > 0 /\ s[Len(s)].ev = "registered")
                   => id \in Ids(operators_)

\* No definition or implementation handle for the name was live when the
\* call that has just returned began, and no release action for the name is
\* on its way to deregisterImpl_.
AllDisposed(name) ==
    /\ \A h \in BagToSet(last.pre.handles) :
          h.kind \in {"def", "impl"} => h.op_name # name
    /\ InDisposal("impl", name) = {}

\* C20: registerDef for a name all of whose definition and implementation
\* handles have been disposed finds nothing of the name, whatever signature
\* it had before: the call succeeds, its entry is a new one with refcounts
\* (1, 1) and the new schema, the only entry of the name, and every listener
\* receives "registered" for it.
C20_AsIfNeverSeen ==
    (last.op = "registerDef" /\ AllDisposed(last.schema.name))
    => /\ ~HasEntry(last.pre.operators, last.schema.name)
       /\ last.schema.name \notin DOMAIN last.pre.lookup
       /\ last.ret = "ok"
       /\ last.handle \notin Ids(last.pre.operators)
       /\ LET node == Deref(operators_, last.handle)
          IN /\ node.name = last.schema.name
             /\ node.schema = last.schema
             /\ node.refcount = 1 /\ node.weak_refcount = 1
       /\ Cardinality({i \in DOMAIN operators_ :
                          operators_[i].name = last.schema.name}) = 1
       /\ findSchema(last.schema.name) = last.handle
       /\ listeners_ = callOnOperatorRegistered(last.pre.listeners, last.handle)

\* "add" was defined as add(a, b) (entry 1), a listener saw that entry go,
\* and "add" has just been defined with another signature as entry 2.
C20_Witness ==
    /\ last.op = "registerDef" /\ last.ret = "ok"
    /\ last.schema.name = DefinedSchema.name
    /\ last.schema.sig # DefinedSchema.sig
    /\ AllDisposed(last.schema.name)
    /\ last.handle = 2 /\ nextId = 3
    /\ Len(listeners_) = 1
    /\ listeners_[1] = <<Event("registered", 1), Event("deregistered", 1),
                         Event("registered", 2)>>
    /\ Deref(operators_, 2).schema = last.schema

\* The same after a definition and an implementation of add(a, b) have both
\* been disposed.
C20_WitnessAfterImpl ==
    /\ last.op = "registerDef" /\ last.ret = "ok"
    /\ last.schema.name = DefinedSchema.name
    /\ last.schema.sig # DefinedSchema.sig
    /\ AllDisposed(last.schema.name)
    /\ last.handle = 2 /\ nextId = 3
    /\ nCalls = 4
    /\ Deref(operators_, 2).refcount = 1

====
